---- MODULE Spec2Model ----
(***************************************************************************)
(* A model of the B-tree map of src/src/main.rs: BTreeNode (keys, values,  *)
(* children, is_leaf, min_degree) with insert_non_full and split_child,    *)
(* and BTreeMap (root, min_degree) with new, insert and search.            *)
(*                                                                         *)
(* Vectors are sequences.  The source indexes from 0 and sequences from 1: *)
(* every index named pos or index below is the source's 0-based index and  *)
(* At(s, i) reads s[i].  Option<T> is a sequence of length 0 (None) or 1   *)
(* (Some).  A Rust panic (index out of bounds, unwrap on None, insert or   *)
(* split_off past the end, arithmetic overflow in a build that checks it)  *)
(* ends the program: the operators return a record whose field panic says  *)
(* so, and the map is not used afterwards.                                 *)
(***************************************************************************)
EXTENDS Integers, Sequences, FiniteSets, TLC

\* ---------------------------------------------------------------- bounds
MaxDegree == 3          \* new(t) is called with t in 0..MaxDegree
MaxKey == 3             \* Spec: keys 1..MaxKey, each inserted any number of times
MaxDistinctKey == 10    \* SpecDistinct: keys 1..MaxDistinctKey, each inserted at most once
MaxOps == 12            \* insert calls on a map with min_degree >= 2
MaxOpsLowDegree == 5    \* insert calls on a map with min_degree < 2
MaxDeepKey == 2         \* SpecDeep: keys 1..MaxDeepKey, each inserted any number of times
MaxDeepOps == 15        \* SpecDeep: insert calls

Degrees == 0..MaxDegree
ValidDegrees == 2..MaxDegree
Keys == 1..MaxKey
DistinctKeys == 1..MaxDistinctKey
DeepKeys == 1..MaxDeepKey
AllKeys == Keys \cup DistinctKeys \cup DeepKeys

\* V is an opaque type parameter (the source asks only V: Clone and never
\* reads a value), so the code cannot branch on one.  Each insert call is
\* given the value that identifies it: <<key, n>> for the n-th insert of key.
\* Any other choice of values is an image of this one.
ValueOf(key, n) == <<key, n>>

\* usize arithmetic: `2 * min_degree - 1` is computed in usize.  A build with
\* overflow checks panics when it underflows, a build without wraps modulo
\* 2^w.  w is the narrowest usize Rust has (16 bits); every wider usize gives
\* the same behaviours here, as no Vec of the model is that long.
UsizeModulus == 65536

VARIABLES
    root,             \* BTreeMap.root: Option<BTreeNode>, <<>> or <<node>>
    min_degree,       \* BTreeMap.min_degree
    overflow_checks,  \* the build: TRUE panics on usize overflow, FALSE wraps
    panicked,         \* TRUE once an operation has panicked
    inserted,         \* history: key -> the values insert was called with, oldest first
    returned,         \* the last operation and the Option it returned
    calls             \* the calls the last operation made below insert, in order

vars == <<root, min_degree, overflow_checks, panicked, inserted, returned, calls>>

\* ------------------------------------------------------------ Vec, Option
None == <<>>
Some(x) == <<x>>

At(s, i) == s[i + 1]

\* Position with `>` for `>=`: the first key greater than key.
RECURSIVE PositionFromGt(_, _, _)
PositionFromGt(keys, key, i) ==
    IF i >= Len(keys) THEN Len(keys)
    ELSE IF At(keys, i) > key THEN i
    ELSE PositionFromGt(keys, key, i + 1)

PositionGt(keys, key) == PositionFromGt(keys, key, 0)

\* Iterator::position(|k| *k >= key).unwrap_or(keys.len()): the first index
\* of the scan whose key is >= key, keys.len() when the scan finds none.
RECURSIVE PositionFrom(_, _, _)
PositionFrom(keys, key, i) ==
    IF i >= Len(keys) THEN Len(keys)
    ELSE IF At(keys, i) >= key THEN i
    ELSE PositionFrom(keys, key, i + 1)

Position(keys, key) == PositionFrom(keys, key, 0)

\* Vec::insert(index, x), for index <= len (it panics otherwise).
VecInsert(s, index, x) ==
    SubSeq(s, 1, index) \o <<x>> \o SubSeq(s, index + 1, Len(s))

\* Vec::split_off(at), for at <= len: what the vector keeps and what is returned.
SplitKeep(s, at) == SubSeq(s, 1, at)
SplitOff(s, at) == SubSeq(s, at + 1, Len(s))

\* Vec::pop() on a non-empty vector: the last element, and the rest.
PopValue(s) == s[Len(s)]
PopRest(s) == SubSeq(s, 1, Len(s) - 1)

\* ------------------------------------------------------------- BTreeNode
BTreeNode_new(t, leaf) ==
    [keys |-> <<>>, values |-> <<>>, children |-> <<>>,
     is_leaf |-> leaf, min_degree |-> t]

\* `2 * min_degree - 1` underflows (only min_degree = 0 does).
FullOverflows(t) == 2 * t < 1

\* FullLen with `- 2`: a node counts as full one key early.
FullLenMinusTwo(t) == (2 * t - 2) % UsizeModulus

\* FullLen without the `- 1`: a node counts as full at 2 * min_degree keys.
FullLenNoMinusOne(t) == (2 * t) % UsizeModulus

\* `2 * min_degree - 1` in wrapping usize arithmetic.
FullLen(t) == (2 * t - 1) % UsizeModulus

\* What a call on a node gives: the node afterwards, whether it panicked, and
\* trace, the calls made on the way, in program order:
\*   [op |-> "insert_non_full", self]      insert_non_full entered on self
\*   [op |-> "split_child", self, index, after]
\*                                         self.split_child(index), and self after it
\*   [op |-> "recurse", self, index]       self, as it is at that moment, calls
\*                                         self.children[index].insert_non_full
Ok(node) == [panic |-> FALSE, node |-> node, trace |-> <<>>]
Panic(node) == [panic |-> TRUE, node |-> node, trace |-> <<>>]

\* the result r of a call, with the call itself recorded first
Entered(event, r) == [r EXCEPT !.trace = <<event>> \o @]

\* the result r of what ran after the calls of first
After(first, r) == [r EXCEPT !.trace = first.trace \o @]

\* SplitNewChild with BTreeNode::new(min_degree, true): the sibling is flagged
\* a leaf whatever the child is.
SplitNewChildLeaf(child, t) ==
    [BTreeNode_new(t, TRUE) EXCEPT
        !.keys = SplitOff(child.keys, t),
        !.values = SplitOff(child.values, t),
        !.children = IF child.is_leaf THEN <<>> ELSE SplitOff(child.children, t)]

\* The new right sibling split_child builds from children[index]: the same
\* is_leaf, the keys and values from index min_degree on and, when the child
\* is internal, its children from index min_degree on.
SplitNewChild(child, t) ==
    [BTreeNode_new(t, child.is_leaf) EXCEPT
        !.keys = SplitOff(child.keys, t),
        !.values = SplitOff(child.values, t),
        !.children = IF child.is_leaf THEN <<>> ELSE SplitOff(child.children, t)]

\* SplitOldChild with split_off(min_degree - 1): the child keeps one key less,
\* so the key popped afterwards is the one before the median.
SplitOldChildShort(child, t) ==
    [child EXCEPT
        !.keys = SplitKeep(child.keys, t - 1),
        !.values = SplitKeep(child.values, t - 1),
        !.children = IF child.is_leaf THEN child.children
                     ELSE SplitKeep(child.children, t)]

\* children[index] once split_child has split off its tail: keys, values and
\* (when internal) children below index min_degree; the last key and value are
\* still to be popped.
SplitOldChild(child, t) ==
    [child EXCEPT
        !.keys = SplitKeep(child.keys, t),
        !.values = SplitKeep(child.values, t),
        !.children = IF child.is_leaf THEN child.children
                     ELSE SplitKeep(child.children, t)]

\* SplitParent without `self.children.insert(index + 1, new_child)`.
SplitParentNoSibling(self, index, old_child, new_child) ==
    [self EXCEPT
        !.keys = VecInsert(@, index, PopValue(old_child.keys)),
        !.values = VecInsert(@, index, PopValue(old_child.values)),
        !.children = [@ EXCEPT ![index + 1] =
                [old_child EXCEPT !.keys = PopRest(old_child.keys),
                                  !.values = PopRest(old_child.values)]]]

\* SplitParent without `self.values.insert(index, ..)`: the popped value is dropped.
SplitParentNoValue(self, index, old_child, new_child) ==
    [self EXCEPT
        !.keys = VecInsert(@, index, PopValue(old_child.keys)),
        !.children = VecInsert(
            [@ EXCEPT ![index + 1] =
                [old_child EXCEPT !.keys = PopRest(old_child.keys),
                                  !.values = PopRest(old_child.values)]],
            index + 1, new_child)]

\* SplitParent with `self.children.insert(index, new_child)`: the sibling is
\* put before the child it was split from.
SplitParentSiblingFirst(self, index, old_child, new_child) ==
    [self EXCEPT
        !.keys = VecInsert(@, index, PopValue(old_child.keys)),
        !.values = VecInsert(@, index, PopValue(old_child.values)),
        !.children = VecInsert(
            [@ EXCEPT ![index + 1] =
                [old_child EXCEPT !.keys = PopRest(old_child.keys),
                                  !.values = PopRest(old_child.values)]],
            index, new_child)]

\* SplitParent with `last().cloned()` for `pop()`: the median key and value
\* are copied into self and stay in the child.
SplitParentKeepsMedian(self, index, old_child, new_child) ==
    [self EXCEPT
        !.keys = VecInsert(@, index, PopValue(old_child.keys)),
        !.values = VecInsert(@, index, PopValue(old_child.values)),
        !.children = VecInsert([@ EXCEPT ![index + 1] = old_child],
                               index + 1, new_child)]

\* self once the key and value popped from old_child are inserted at index
\* and new_child at index + 1.
SplitParent(self, index, old_child, new_child) ==
    [self EXCEPT
        !.keys = VecInsert(@, index, PopValue(old_child.keys)),
        !.values = VecInsert(@, index, PopValue(old_child.values)),
        !.children = VecInsert(
            [@ EXCEPT ![index + 1] =
                [old_child EXCEPT !.keys = PopRest(old_child.keys),
                                  !.values = PopRest(old_child.values)]],
            index + 1, new_child)]

\* split_child(&mut self, index)
split_child(self, index) ==
    LET done ==
        IF index >= Len(self.children) THEN Panic(self)   \* self.children[index]
        ELSE
          LET t == self.min_degree
              child == At(self.children, index)
          IN
          IF t > Len(child.keys) \/ t > Len(child.values)     \* split_off(min_degree)
            THEN Panic(self)
          ELSE IF ~child.is_leaf /\ t > Len(child.children)   \* children.split_off
            THEN Panic(self)
          ELSE
            LET new_child == SplitNewChild(child, t)
                old_child == SplitOldChild(child, t)
            IN
            IF Len(old_child.keys) = 0 \/ Len(old_child.values) = 0   \* pop().unwrap()
              THEN Panic(self)
            ELSE IF index > Len(self.keys) \/ index > Len(self.values)  \* insert(index, ..)
              THEN Panic(self)
            ELSE Ok(SplitParent(self, index, old_child, new_child))
    IN Entered([op |-> "split_child", self |-> self, index |-> index,
                after |-> done.node], done)

\* ChildAfterSplit without the comparison: always children[pos].
ChildAfterSplitLeft(keys, pos, key) == pos

\* ChildAfterSplit with the comparison turned round.
ChildAfterSplitFlipped(keys, pos, key) ==
    IF key < At(keys, pos) THEN pos + 1 ELSE pos

\* After split_child(pos): `if key > self.keys[pos]` takes children[pos + 1],
\* else children[pos].
ChildAfterSplit(keys, pos, key) ==
    IF key > At(keys, pos) THEN pos + 1 ELSE pos

RECURSIVE insert_non_full(_, _, _, _)

\* A descent that repairs on the way back: after the recursive call returns,
\* a child that the insertion has filled is split in self.
DescendThenSplit(self, i, key, value, checks) ==
    IF i >= Len(self.children) THEN Panic(self)
    ELSE
      LET r == insert_non_full(At(self.children, i), key, value, checks)
          back == [self EXCEPT !.children[i + 1] = r.node]
      IN Entered([op |-> "recurse", self |-> self, index |-> i],
                 After(r, IF r.panic THEN Panic(self)
                          ELSE IF Len(r.node.keys) = FullLen(self.min_degree)
                            THEN split_child(back, i)
                          ELSE Ok(back)))

\* self.children[i].insert_non_full(key, value), the child changed in place.
Descend(self, i, key, value, checks) ==
    IF i >= Len(self.children) THEN Panic(self)
    ELSE
      LET r == insert_non_full(At(self.children, i), key, value, checks)
      IN Entered([op |-> "recurse", self |-> self, index |-> i],
                 After(r, IF r.panic THEN Panic(self)
                          ELSE Ok([self EXCEPT !.children[i + 1] = r.node])))

\* insert_non_full(&mut self, key, value); checks is the build's overflow checking.
insert_non_full(self, key, value, checks) ==
    LET pos == Position(self.keys, key)
        done ==
          IF self.is_leaf THEN
            IF pos > Len(self.values) THEN Panic(self)          \* values.insert(pos, ..)
            ELSE Ok([self EXCEPT !.keys = VecInsert(@, pos, key),
                                 !.values = VecInsert(@, pos, value)])
          ELSE IF pos >= Len(self.children) THEN Panic(self)    \* self.children[pos]
          ELSE IF checks /\ FullOverflows(self.min_degree) THEN Panic(self)
          ELSE IF Len(At(self.children, pos).keys) = FullLen(self.min_degree) THEN
            LET s == split_child(self, pos)
            IN IF s.panic THEN s
               ELSE IF pos >= Len(s.node.keys) THEN After(s, Panic(self)) \* self.keys[pos]
               ELSE After(s, Descend(s.node, ChildAfterSplit(s.node.keys, pos, key),
                                     key, value, checks))
          ELSE Descend(self, pos, key, value, checks)
    IN Entered([op |-> "insert_non_full", self |-> self], done)

\* --------------------------------------------------------------- BTreeMap
\* BTreeMap::new that allocates the root at once: root: Some(empty leaf).
BTreeMap_newWithRoot(t) ==
    [root |-> Some(BTreeNode_new(t, TRUE)), min_degree |-> t]

BTreeMap_new(t) == [root |-> None, min_degree |-> t]

\* BTreeMap::insert without the growth of a full root: the root is created if
\* absent and insert_non_full is called on it whatever it holds.
BTreeMap_insertNoGrowth(r, t, key, value, checks) ==
    LET root0 == IF r = None THEN BTreeNode_new(t, TRUE) ELSE r[1]
    IN IF checks /\ FullOverflows(t) THEN Panic(root0)
       ELSE insert_non_full(root0, key, value, checks)

\* BTreeMap::insert(&mut self, key, value): the root afterwards, or a panic.
BTreeMap_insert(r, t, key, value, checks) ==
    LET root0 == IF r = None THEN BTreeNode_new(t, TRUE) ELSE r[1]
    IN
    IF checks /\ FullOverflows(t) THEN Panic(root0)
    ELSE IF Len(root0.keys) = FullLen(t) THEN
      LET new_root == [BTreeNode_new(t, FALSE) EXCEPT !.children = <<root0>>]
          s == split_child(new_root, 0)
      IN IF s.panic THEN After(s, Panic(root0))
         ELSE LET i == insert_non_full(s.node, key, value, checks)
              IN After(s, IF i.panic THEN After(i, Panic(root0)) ELSE i)
    ELSE insert_non_full(root0, key, value, checks)

Found(v) == [panic |-> FALSE, value |-> Some(v), get_none |-> FALSE]
Absent == [panic |-> FALSE, value |-> None, get_none |-> FALSE]

\* search_in_node(node, key).  value is the Option returned; panic says that
\* node.values[pos] was out of bounds; get_none that an internal node had no
\* children.get(pos) (the source then returns None).
RECURSIVE search_in_node(_, _)
search_in_node(node, key) ==
    LET pos == Position(node.keys, key)
    IN
    IF pos < Len(node.keys) /\ At(node.keys, pos) = key THEN
      IF pos >= Len(node.values)
        THEN [panic |-> TRUE, value |-> None, get_none |-> FALSE]
        ELSE Found(At(node.values, pos))
    ELSE IF node.is_leaf THEN Absent
    ELSE IF pos >= Len(node.children)
      THEN [panic |-> FALSE, value |-> None, get_none |-> TRUE]
    ELSE search_in_node(At(node.children, pos), key)

\* BTreeMap::search(&self, key)
BTreeMap_search(r, key) ==
    IF r = None THEN Absent ELSE search_in_node(r[1], key)

\* ------------------------------------------------------------ the machine
RECURSIVE SumLen(_, _)
SumLen(f, S) ==
    IF S = {} THEN 0
    ELSE LET k == CHOOSE x \in S : TRUE
         IN Len(f[k]) + SumLen(f, S \ {k})

\* the number of insert calls so far
Ops == SumLen(inserted, AllKeys)

OpsBound == IF min_degree < 2 THEN MaxOpsLowDegree ELSE MaxOps

\* let mut btree = BTreeMap::new(t), before any insert
Constructed(t) ==
    /\ root = BTreeMap_new(t).root
    /\ min_degree = BTreeMap_new(t).min_degree
    /\ overflow_checks \in BOOLEAN
    /\ panicked = FALSE
    /\ inserted = [k \in AllKeys |-> <<>>]
    /\ returned = [op |-> "new", key |-> 0, value |-> None]
    /\ calls = <<>>

Init == \E t \in Degrees : Constructed(t)

\* btree.insert(key, value).  A panic ends the program (main catches none):
\* panicked is set, no operation follows, and root is left as it was.
CallInsert(key) ==
    /\ ~panicked
    /\ LET value == ValueOf(key, Len(inserted[key]) + 1)
           r == BTreeMap_insert(root, min_degree, key, value, overflow_checks)
       IN /\ panicked' = r.panic
          /\ root' = IF r.panic THEN root ELSE Some(r.node)
          /\ inserted' = [inserted EXCEPT ![key] = Append(@, value)]
          /\ calls' = r.trace
    /\ returned' = [op |-> "insert", key |-> key, value |-> None]
    /\ UNCHANGED <<min_degree, overflow_checks>>

Insert(key) ==
    /\ Ops < OpsBound
    /\ CallInsert(key)

\* btree.search(&key)
Search(key) ==
    /\ ~panicked
    /\ LET r == BTreeMap_search(root, key)
       IN /\ panicked' = r.panic
          /\ returned' = [op |-> "search", key |-> key, value |-> r.value]
    /\ calls' = <<>>
    /\ UNCHANGED <<root, min_degree, overflow_checks, inserted>>

Next ==
    \/ \E key \in Keys : Insert(key)
    \/ \E key \in Keys : Search(key)

Spec == Init /\ [][Next]_vars

\* The maps of a valid degree on which no key is inserted twice.
InitDistinct == \E t \in ValidDegrees : Constructed(t)

InsertNew(key) ==
    /\ inserted[key] = <<>>
    /\ Insert(key)

NextDistinct ==
    \/ \E key \in DistinctKeys : InsertNew(key)
    \/ \E key \in DistinctKeys : Search(key)

SpecDistinct == InitDistinct /\ [][NextDistinct]_vars

\* The maps of a valid degree under long runs of inserts on few keys: deep
\* trees, in which internal nodes below the root are split.
InitDeep == \E t \in ValidDegrees : Constructed(t)

InsertDeep(key) ==
    /\ Ops < MaxDeepOps
    /\ CallInsert(key)

NextDeep ==
    \/ \E key \in DeepKeys : InsertDeep(key)
    \/ \E key \in DeepKeys : Search(key)

SpecDeep == InitDeep /\ [][NextDeep]_vars

\* The ascending fill, for each degree of the sweep: a map of that degree
\* receives the keys of AscendingFill in order, searched at any moment.
SweepDegrees == {2, 3, 5}
AscendingFill == <<1, 2, 3, 4, 5, 6, 7>>

InitSweep == \E t \in SweepDegrees : Constructed(t)

InsertAscending ==
    /\ Ops < Len(AscendingFill)
    /\ CallInsert(AscendingFill[Ops + 1])

NextSweep ==
    \/ InsertAscending
    \/ \E i \in 1..Len(AscendingFill) : Search(AscendingFill[i])

SpecSweep == InitSweep /\ [][NextSweep]_vars

\* ------------------------------------------------------- reading the tree
Range(s) == {s[i] : i \in 1..Len(s)}

StrictlyIncreasing(s) == \A i \in 1..(Len(s) - 1) : s[i] < s[i + 1]

Last(s) == s[Len(s)]

\* every node reachable from node, with its depth below the root (the root is at 0)
RECURSIVE NodesAt(_, _)
NodesAt(node, depth) ==
    {[node |-> node, depth |-> depth]} \cup
    UNION {NodesAt(node.children[i], depth + 1) : i \in 1..Len(node.children)}

Reachable == IF root = None THEN {} ELSE NodesAt(root[1], 0)

\* the keys stored in the subtree of node
RECURSIVE SubtreeKeys(_)
SubtreeKeys(node) ==
    Range(node.keys) \cup
    UNION {SubtreeKeys(node.children[i]) : i \in 1..Len(node.children)}

\* the in-order traversal of the subtree of node: c_0, k_0, c_1, k_1, ..., c_n
RECURSIVE InOrderFrom(_, _)
InOrder(node) == InOrderFrom(node, 0)
InOrderFrom(node, i) ==
    IF i >= Len(node.keys) /\ i >= Len(node.children) THEN <<>>
    ELSE (IF i < Len(node.children) THEN InOrder(At(node.children, i)) ELSE <<>>)
         \o (IF i < Len(node.keys) THEN <<At(node.keys, i)>> ELSE <<>>)
         \o InOrderFrom(node, i + 1)

\* the number of node levels: 0 for the empty map, 1 for a leaf root
RECURSIVE Levels(_)
Levels(node) ==
    IF Len(node.children) = 0 THEN 1 ELSE 1 + Levels(node.children[1])

Height == IF root = None THEN 0 ELSE Levels(root[1])

InsertedKeys == {k \in AllKeys : inserted[k] # <<>>}

\* some key was inserted more than once
Repeated == \E k \in AllKeys : Len(inserted[k]) > 1

\* a map of a valid degree on which no operation has panicked
Valid == min_degree >= 2 /\ ~panicked

\* ------------------------------------------------------------------ C1
\* C1: on a map with min_degree >= 2 and pairwise distinct inserted keys,
\* search(&k) returns Some(the value inserted with k) for every inserted key k
\* and None for every key never inserted (every key, on the empty map); the
\* Option a search call returned is that one too.
C1_SearchReturnsInserted ==
    (Valid /\ ~Repeated) =>
        /\ \A k \in AllKeys :
             BTreeMap_search(root, k).value =
                 IF inserted[k] = <<>> THEN None ELSE Some(inserted[k][1])
        /\ returned.op = "search" =>
             returned.value =
                 IF inserted[returned.key] = <<>> THEN None
                 ELSE Some(inserted[returned.key][1])

\* a search call has found a key that lies below an internal root of a map
\* that also lacks some key
C1_Witness ==
    /\ Valid /\ ~Repeated
    /\ Height >= 2
    /\ returned.op = "search" /\ returned.value # None
    /\ returned.key \notin Range(root[1].keys)
    /\ \E k \in DistinctKeys : inserted[k] = <<>>

\* ------------------------------------------------------------------ C2
\* C2: after insert(k, v), search(&k) returns v, the value of the latest
\* insert of k, also when k was in the tree before that insert.
C2_SearchReturnsNewest ==
    Valid =>
        \A k \in AllKeys :
            inserted[k] # <<>> =>
                BTreeMap_search(root, k).value = Some(Last(inserted[k]))

\* ------------------------------------------------------------------ C3
\* C3: keys may repeat; once insert(key, ..) has returned, search(&key) returns
\* Some(x) with x one of the values inserted with that key: never None, never
\* a value inserted under another key.
C3_SearchReturnsAValueOfKey ==
    Valid =>
        /\ \A k \in AllKeys :
             inserted[k] # <<>> =>
                 \E x \in Range(inserted[k]) :
                     BTreeMap_search(root, k).value = Some(x)
        /\ (returned.op = "search" /\ inserted[returned.key] # <<>>) =>
             \E x \in Range(inserted[returned.key]) : returned.value = Some(x)

\* a search call on a tree of two levels or more has returned a value of a
\* key inserted several times, and not the newest one
C3_Witness ==
    /\ Valid
    /\ Height >= 2
    /\ returned.op = "search"
    /\ Len(inserted[returned.key]) > 1
    /\ returned.value # None
    /\ returned.value # Some(Last(inserted[returned.key]))

\* ------------------------------------------------------------------ C4
\* C4: new(t) with t < 2 is rejected: there is no map with min_degree < 2 on
\* which insert or search is run.
C4_InvalidDegreeRejected ==
    min_degree < 2 => (Ops = 0 /\ returned.op = "new")

\* ------------------------------------------------------------------ C5
\* C5: on a map with min_degree >= 2 no insert and no search panics (no index
\* out of bounds, no unwrap of None, no insert or split_off past the end),
\* whatever the keys, and search never finds children.get(pos) missing in an
\* internal node.
C5_OperationsTotal ==
    min_degree >= 2 =>
        /\ ~panicked
        /\ \A k \in AllKeys :
             /\ ~BTreeMap_search(root, k).panic
             /\ ~BTreeMap_search(root, k).get_none

\* inserts with repeated keys have built three levels (so leaves, the root
\* and an internal child were split) and a search has run on them
C5_Witness ==
    /\ Valid /\ Repeated
    /\ Height >= 3
    /\ returned.op = "search"

\* ------------------------------------------------------------------ C6
\* C6: after every insert, whatever the keys, the keys of each reachable node
\* are strictly increasing.
C6_NodeKeysStrictlyIncreasing ==
    Valid => \A n \in Reachable : StrictlyIncreasing(n.node.keys)

\* ------------------------------------------------------------------ C7
\* C7: with pairwise distinct keys, each key k_i of a node is greater than
\* every key in the subtree of child c_i and smaller than every key in the
\* subtree of child c_(i+1), and the in-order traversal yields the inserted
\* keys in strictly increasing order.
C7_SubtreesOrdered ==
    (Valid /\ ~Repeated) =>
        /\ \A n \in Reachable :
             \A i \in 1..Len(n.node.keys) :
                 /\ i <= Len(n.node.children) =>
                      \A x \in SubtreeKeys(n.node.children[i]) : x < n.node.keys[i]
                 /\ i + 1 <= Len(n.node.children) =>
                      \A x \in SubtreeKeys(n.node.children[i + 1]) : x > n.node.keys[i]
        /\ root # None =>
             /\ StrictlyIncreasing(InOrder(root[1]))
             /\ Range(InOrder(root[1])) = InsertedKeys

\* distinct keys have built three levels: an internal node has an internal child
C7_Witness ==
    /\ Valid /\ ~Repeated
    /\ Height >= 3
    /\ \E n \in Reachable : n.depth = 1 /\ Len(n.node.keys) >= 2

\* ------------------------------------------------------------------ C8
\* C8: after every insert every reachable node has as many values as keys; a
\* node with is_leaf has no children; a node without is_leaf has
\* keys.len() + 1 children.
C8_NodeShape ==
    Valid =>
        \A n \in Reachable :
            /\ Len(n.node.values) = Len(n.node.keys)
            /\ n.node.is_leaf => Len(n.node.children) = 0
            /\ ~n.node.is_leaf => Len(n.node.children) = Len(n.node.keys) + 1

\* an internal node below the root, so an internal child has been split
C8_Witness ==
    /\ Valid
    /\ \E n \in Reachable : n.depth = 1 /\ ~n.node.is_leaf

\* ------------------------------------------------------------------ C9
\* C9: after every insert every node holds at most 2t-1 keys, every non-root
\* node at least t-1 keys and the root at least one key.
C9_NodeOccupancy ==
    (Valid /\ Ops > 0) =>
        /\ root # None
        /\ \A n \in Reachable :
             /\ Len(n.node.keys) <= 2 * min_degree - 1
             /\ n.depth > 0 => Len(n.node.keys) >= min_degree - 1
             /\ n.depth = 0 => Len(n.node.keys) >= 1

\* a tree with a full node and a non-root node at the minimum of t-1 keys
C9_Witness ==
    /\ Valid
    /\ \E n \in Reachable : Len(n.node.keys) = 2 * min_degree - 1
    /\ \E n \in Reachable : n.depth > 0 /\ Len(n.node.keys) = min_degree - 1

\* ----------------------------------------------------------------- C10
\* C10: after every insert all leaves are at the same depth below the root.
C10_LeavesSameDepth ==
    Valid =>
        \A a, b \in Reachable :
            (a.node.is_leaf /\ b.node.is_leaf) => a.depth = b.depth

\* a tree of three levels whose root has three children or more
C10_Witness ==
    /\ Valid
    /\ Height >= 3
    /\ Cardinality({n \in Reachable : n.node.is_leaf}) >= 5

\* ----------------------------------------------------------------- C11
\* ceil(log_t((n + 1) / 2)): the least e with 2 * t^e >= n + 1; p is t^e
RECURSIVE CeilLogFrom(_, _, _, _)
CeilLogFrom(t, n, e, p) ==
    IF 2 * p >= n + 1 THEN e ELSE CeilLogFrom(t, n, e + 1, p * t)

CeilLogHalf(t, n) == CeilLogFrom(t, n, 0, 1)

\* C11: after n inserts of pairwise distinct keys into a map with t >= 2, the
\* number of node levels h (1 for a single leaf root) is at most
\* ceil(log_t((n + 1) / 2)) + 1.
C11_HeightBound ==
    (Valid /\ ~Repeated /\ Ops > 0) =>
        Height <= CeilLogHalf(min_degree, Ops) + 1

\* distinct keys have built three levels
C11_Witness ==
    /\ Valid /\ ~Repeated
    /\ Height = 3

\* ----------------------------------------------------------------- C12
\* C12: the map is empty (root absent) or non-empty (root present, with at
\* least one key).  A new map is empty and stays so until the first insert;
\* the first insert makes it non-empty by creating a leaf root holding the
\* inserted key; no later insert or search makes it empty again.
C12_EmptyThenNonEmpty ==
    /\ [](min_degree >= 2 =>
            /\ ~panicked
            /\ (root = None) <=> (Ops = 0)
            /\ root # None => Len(root[1].keys) >= 1)
    /\ [][min_degree >= 2 =>
            /\ (root = None /\ root' # None) =>
                  /\ returned'.op = "insert"
                  /\ root'[1].is_leaf
                  /\ root'[1].keys = <<returned'.key>>
            /\ root # None => root' # None]_vars

\* a non-empty map after some inserts and a search on it
C12_Witness ==
    /\ Valid
    /\ root # None
    /\ Ops >= 2
    /\ returned.op = "search"

\* ----------------------------------------------------------------- C13
\* C13: on a map that has a root, an insert adds exactly one level if and only
\* if the root held exactly 2t-1 keys when the insert started; every other
\* insert, the one that brings the root to 2t-1 keys included, and every
\* search leave the number of levels as it is; it never decreases.  (The
\* insert that creates the root is C12's.)
C13_HeightChangesAtRootGrowth ==
    [][(min_degree >= 2 /\ root # None) =>
          /\ ~panicked'
          /\ root' # None
          /\ LET full == Len(root[1].keys) = 2 * min_degree - 1
                 grows == returned'.op = "insert" /\ full
             IN /\ grows => Height' = Height + 1
                /\ ~grows => Height' = Height
                /\ (returned'.op = "insert" /\ ~full) =>
                      /\ Len(root'[1].keys) <= 2 * min_degree - 1
                      /\ root'[1].is_leaf = root[1].is_leaf]_vars

\* a tree of two levels or more, so the root has grown, whose root has been
\* brought to 2t-1 keys without being split
C13_Witness ==
    /\ Valid
    /\ Height >= 2
    /\ Len(root[1].keys) = 2 * min_degree - 1

\* ----------------------------------------------------------------- C14
Min(a, b) == IF a < b THEN a ELSE b

\* the (key, value) pairs a node stores, values[i] with keys[i]
NodePairs(node) ==
    {<<node.keys[i], node.values[i]>> :
        i \in 1..Min(Len(node.keys), Len(node.values))}

\* the pairs stored in the subtree of node
RECURSIVE SubtreePairs(_)
SubtreePairs(node) ==
    NodePairs(node) \cup
    UNION {SubtreePairs(node.children[i]) : i \in 1..Len(node.children)}

\* the number of keys stored in the subtree of node
RECURSIVE SumKeys(_, _)
KeyCount(node) == Len(node.keys) + SumKeys(node.children, 1)
SumKeys(children, i) ==
    IF i > Len(children) THEN 0
    ELSE KeyCount(children[i]) + SumKeys(children, i + 1)

\* C14: an insert that finds 2t-1 keys in the root leaves a new internal root
\* with exactly one key, the old root's key at index t-1, with its value, and
\* exactly two children of the old root's kind: the left holds the old root's
\* t-1 keys before it, the right the t-1 keys after it (with their values).
\* The new pair went below one of them: the other is exactly that half of the
\* old root (its keys, values and, when internal, children).  No pair of the
\* old tree is lost or stored twice.
C14_RootGrowth ==
    [][(/\ min_degree >= 2
        /\ root # None
        /\ Len(root[1].keys) = 2 * min_degree - 1
        /\ returned'.op = "insert") =>
          /\ ~panicked'
          /\ LET t == min_degree
                 old == root[1]
                 new == root'[1]
                 key == returned'.key
                 low == [old EXCEPT
                            !.keys = SubSeq(old.keys, 1, t - 1),
                            !.values = SubSeq(old.values, 1, t - 1),
                            !.children = SubSeq(old.children, 1,
                                                Min(t, Len(old.children)))]
                 high == [old EXCEPT
                            !.keys = SubSeq(old.keys, t + 1, 2 * t - 1),
                            !.values = SubSeq(old.values, t + 1, 2 * t - 1),
                            !.children = SubSeq(old.children, t + 1,
                                                Len(old.children))]
             IN /\ ~new.is_leaf
                /\ new.keys = <<old.keys[t]>>
                /\ new.values = <<old.values[t]>>
                /\ Len(new.children) = 2
                /\ new.children[1].is_leaf = old.is_leaf
                /\ new.children[2].is_leaf = old.is_leaf
                /\ NodePairs(low) \subseteq NodePairs(new.children[1])
                /\ NodePairs(high) \subseteq NodePairs(new.children[2])
                /\ IF key > old.keys[t]
                     THEN new.children[1] = low
                     ELSE new.children[2] = high
                /\ SubtreePairs(new) =
                      SubtreePairs(old) \cup {<<key, Last(inserted'[key])>>}
                /\ KeyCount(new) = KeyCount(old) + 1]_vars

\* the state an insert leaves when it has grown an internal root: three
\* levels under a root of one key and two children
C14_Witness ==
    /\ Valid
    /\ Height = 3
    /\ returned.op = "insert"
    /\ Len(root[1].keys) = 1
    /\ Len(root[1].children) = 2
    /\ \A i \in 1..2 : Len(root[1].children[i].children) = min_degree

\* ----------------------------------------------------------------- C15
\* the calls of the last insert with the given op
CallsOf(op) == {calls[i] : i \in {j \in 1..Len(calls) : calls[j].op = op}}

\* C15: for t >= 2 every call of insert_non_full, the one from
\* BTreeMap::insert and every recursive one, is on a node that holds fewer
\* than 2t-1 keys.
C15_NeverEntersFullNode ==
    min_degree >= 2 =>
        \A c \in CallsOf("insert_non_full") :
            Len(c.self.keys) < 2 * min_degree - 1

\* an insert whose descent split a full child before entering it, two levels
\* below the root
C15_Witness ==
    /\ Valid
    /\ Cardinality(CallsOf("insert_non_full")) >= 3
    /\ \E c \in CallsOf("split_child") :
          /\ Len(c.self.keys) > 0
          /\ Len(At(c.self.children, c.index).keys) = 2 * min_degree - 1

\* ----------------------------------------------------------------- C16
\* the stated result of self.split_child(index), written apart from SplitParent
SplitResult(self, index) ==
    LET t == self.min_degree
        child == At(self.children, index)
        kept == [child EXCEPT
                    !.keys = SubSeq(child.keys, 1, t - 1),
                    !.values = SubSeq(child.values, 1, t - 1),
                    !.children = SubSeq(child.children, 1,
                                        Min(t, Len(child.children)))]
        sibling == [keys |-> SubSeq(child.keys, t + 1, Len(child.keys)),
                    values |-> SubSeq(child.values, t + 1, Len(child.values)),
                    children |-> SubSeq(child.children, t + 1, Len(child.children)),
                    is_leaf |-> child.is_leaf,
                    min_degree |-> t]
    IN [self EXCEPT
          !.keys = SubSeq(self.keys, 1, index) \o <<child.keys[t]>>
                   \o SubSeq(self.keys, index + 1, Len(self.keys)),
          !.values = SubSeq(self.values, 1, index) \o <<child.values[t]>>
                     \o SubSeq(self.values, index + 1, Len(self.values)),
          !.children = SubSeq(self.children, 1, index) \o <<kept, sibling>>
                       \o SubSeq(self.children, index + 2, Len(self.children))]

\* C16: split_child(index) is only called on an internal parent with fewer
\* than 2t-1 keys whose children[index] holds exactly 2t-1 keys; afterwards
\* the child keeps its first t-1 keys and values (and first t children), a
\* new sibling with the child's is_leaf holds the last t-1 keys and values
\* (and last t children) and stands at index + 1, and the child's key at
\* index t-1 and its value stand in the parent at index.
C16_SplitChild ==
    min_degree >= 2 =>
        \A c \in CallsOf("split_child") :
            /\ ~c.self.is_leaf
            /\ Len(c.self.keys) < 2 * min_degree - 1
            /\ c.index < Len(c.self.children)
            /\ IF c.index < Len(c.self.children)
                 THEN /\ Len(At(c.self.children, c.index).keys) = 2 * min_degree - 1
                      /\ Len(At(c.self.children, c.index).values) = 2 * min_degree - 1
                      /\ ~At(c.self.children, c.index).is_leaf =>
                            Len(At(c.self.children, c.index).children) = 2 * min_degree
                      /\ c.after = SplitResult(c.self, c.index)
                 ELSE FALSE

\* an insert that split an internal child that is not its parent's first,
\* so a split made on the descent and not by the growth of the root
C16_Witness ==
    /\ Valid
    /\ \E c \in CallsOf("split_child") :
          /\ c.index > 0
          /\ ~At(c.self.children, c.index).is_leaf

\* ----------------------------------------------------------------- C17
\* the recursions of the last insert, in call order
Recursions == SelectSeq(calls, LAMBDA e : e.op = "recurse")

\* the node reached from node by taking the children numbered path[1], ...
RECURSIVE FollowPath(_, _)
FollowPath(node, path) ==
    IF path = <<>> \/ Head(path) >= Len(node.children) THEN node
    ELSE FollowPath(At(node.children, Head(path)), Tail(path))

DescentPath == [k \in 1..Len(Recursions) |-> Recursions[k].index]

\* the nodes of the subtree of node
NodesOf(node) == {n.node : n \in NodesAt(node, 0)}

\* the nodes the last insert went through: the receivers of insert_non_full
\* and the full children it split on the way, each as it was when reached
Visited ==
    {c.self : c \in CallsOf("insert_non_full")}
        \cup {At(c.self.children, c.index) : c \in CallsOf("split_child")}

\* the two halves every split of the last insert left in the parent
SplitSiblings ==
    UNION {{At(c.after.children, c.index), At(c.after.children, c.index + 1)} :
             c \in {d \in CallsOf("split_child") :
                       d.index + 1 < Len(d.after.children)}}

\* the nodes of the tree on the descent path of the last insert
PathNodes ==
    IF root = None THEN {}
    ELSE {FollowPath(root[1], SubSeq(DescentPath, 1, k)) :
            k \in 0..Len(DescentPath)}

\* C17: an insert is single-pass.  (1) A node from which insert_non_full has
\* recursed into a child is, when the insert returns, what it was at the
\* moment of the recursion, save for the subtree of that child: same keys,
\* values, leaf flag and number of children, and every other child identical;
\* as this holds at every level of the descent, no ancestor is modified
\* either.  (2) Every node of the tree before the insert that the descent did
\* not go through is in the tree afterwards with the same keys, values and
\* children, and every node of the tree afterwards is such an old node, a
\* node of the descent path or a half left by a split on that path.
C17_SinglePass ==
    [][(min_degree >= 2 /\ root # None /\ returned'.op = "insert" /\ ~panicked')
         => /\ \A k \in 1..Len(Recursions') :
                 LET e == Recursions'[k]
                     final == FollowPath(root'[1], SubSeq(DescentPath', 1, k - 1))
                 IN /\ final.keys = e.self.keys
                    /\ final.values = e.self.values
                    /\ final.is_leaf = e.self.is_leaf
                    /\ Len(final.children) = Len(e.self.children)
                    /\ \A j \in 0..(Len(e.self.children) - 1) :
                          j # e.index
                            => At(final.children, j) = At(e.self.children, j)
            /\ \A n \in NodesOf(root[1]) :
                 n \notin Visited' => n \in NodesOf(root'[1])
            /\ \A n \in NodesOf(root'[1]) :
                 \/ n \in NodesOf(root[1])
                 \/ n \in PathNodes'
                 \/ n \in SplitSiblings'
       ]_vars

\* an insert that went down two levels below the root and on the way split
\* a full child of a node it had entered, continuing in the new sibling
C17_Witness ==
    /\ Valid
    /\ Len(Recursions) >= 2
    /\ \E k \in 1..Len(Recursions) :
          \E c \in CallsOf("split_child") :
             /\ c.self \in {d.self : d \in CallsOf("insert_non_full")}
             /\ c.after = Recursions[k].self
             /\ Recursions[k].index = c.index + 1

\* ----------------------------------------------------------------- C18
\* the root after the keys fill[from], fill[from + 1], ... are inserted,
\* each with its first value, in a map of degree t whose root is r
RECURSIVE FillFrom(_, _, _, _)
FillFrom(r, t, fill, from) ==
    IF from > Len(fill) THEN r
    ELSE LET i == BTreeMap_insert(r, t, fill[from], ValueOf(fill[from], 1), FALSE)
         IN IF i.panic THEN r
            ELSE FillFrom(Some(i.node), t, fill, from + 1)

\* the height of the map of degree t after the ascending fill
SweepHeight(t) ==
    LET r == FillFrom(BTreeMap_new(t).root, t, AscendingFill, 1)
    IN IF r = None THEN 0 ELSE Levels(r[1])

\* C18: after the keys 1, ..., 7 are inserted in ascending order the map has
\* the height the fill gives for its degree; that height is 2 for t = 2, and
\* no degree of the sweep {2, 3, 5} larger than the map's gives a larger one.
C18_DegreeSweep ==
    (~panicked /\ min_degree \in SweepDegrees /\ Ops = Len(AscendingFill)
        /\ \A i \in 1..Len(AscendingFill) : inserted[AscendingFill[i]] # <<>>)
      => /\ Height = SweepHeight(min_degree)
         /\ min_degree = 2 => Height = 2
         /\ \A t \in SweepDegrees : t > min_degree => SweepHeight(t) <= Height

\* the fill is complete in the map of the largest degree, which is lower
\* than the map of degree 2
C18_Witness ==
    /\ ~panicked
    /\ min_degree = 5
    /\ \A i \in 1..Len(AscendingFill) : Len(inserted[AscendingFill[i]]) = 1
    /\ Height < SweepHeight(2)

\* ----------------------------------------------------------------- C19
\* the pairs given to insert so far
InsertedPairs ==
    {<<k, inserted[k][i]>> : <<k, i>> \in
        {<<k, i>> \in AllKeys \X (1..Ops) : i <= Len(inserted[k])}}

\* the number of values stored in the subtree of node
RECURSIVE SumValues(_, _)
ValueCount(node) == Len(node.values) + SumValues(node.children, 1)
SumValues(children, i) ==
    IF i > Len(children) THEN 0
    ELSE ValueCount(children[i]) + SumValues(children, i + 1)

\* C19: inserts conserve pairs.  On a map of degree t >= 2, after n insert
\* calls (keys may repeat) the nodes reachable from the root store n keys and
\* n values in all, every node as many values as keys, and the stored pairs
\* (keys[i], values[i]) are exactly the pairs inserted: as every inserted pair
\* is distinct from the others, none is lost, stored twice or re-paired.
C19_PairsConserved ==
    (min_degree >= 2)
      => /\ ~panicked
         /\ root = None => Ops = 0
         /\ root # None =>
              /\ KeyCount(root[1]) = Ops
              /\ ValueCount(root[1]) = Ops
              /\ \A n \in Reachable : Len(n.node.keys) = Len(n.node.values)
              /\ SubtreePairs(root[1]) = InsertedPairs

\* a three-level tree holding a key it was given several times, just after
\* an insert that split a child on its descent: the root has grown twice
C19_Witness ==
    /\ Valid
    /\ Repeated
    /\ Height = 3
    /\ calls # <<>>
    /\ \E c \in CallsOf("split_child") : c.index > 0


====
